---- MODULE Spec2Model ----
(***************************************************************************)
(* Model of nlesc_ser2026_plots.bar_charts: create_stacked_bar_chart and   *)
(* the process-wide Altair theme it enables.                               *)
(*                                                                         *)
(* A pandas DataFrame is a record                                          *)
(*   [kind, index_name, index, columns, dtypes, data]                      *)
(* with data stored column by column: data[j][i] is the cell of row i and  *)
(* column j.  Cell values are FTE amounts in tenths (21 stands for 2.1);   *)
(* the cells of an "object" column are opaque codes of text values.        *)
(* Column names are pairwise distinct; the names "Activity" and "FTE",     *)
(* which collide with the var_name / value_name of melt, are outside the   *)
(* name pool, and so is an index with several levels.                      *)
(***************************************************************************)
EXTENDS Integers, Sequences, FiniteSets, TLC

VARIABLES
    df,           \* the caller's object passed as `df` (kept by the caller)
    activeTheme,  \* alt.themes.active: process-wide rendering configuration
    call,         \* the arguments of the most recent call, df as at entry
    result        \* what the most recent call returned or raised

vars == <<df, activeTheme, call, result>>

(***************************** bounds **************************************)
MaxRows == 2
MaxCols == 2

(************************* program constants *******************************)
None == "None"                      \* Python's None as an index name

DefaultTitle == "FTE Allocation by Activity per Year"
DefaultWidth == 700
DefaultHeight == 400

DocumentedTitle == "FTE Allocation by Activity per Year"
DocumentedWidth == 600
DocumentedHeight == 400

ExampleWidth == 800
ExampleHeight == 500

NlescTheme == "my_nlesc_theme"
Themes == {"default", "dark", NlescTheme}

MsgNotDataFrame ==
    <<"I", "n", "p", "u", "t", " ", "m", "u", "s", "t", " ", "b", "e", " ",
      "a", " ", "p", "a", "n", "d", "a", "s", " ", "D", "a", "t", "a", "F",
      "r", "a", "m", "e">>
MsgEmpty ==
    <<"D", "a", "t", "a", "F", "r", "a", "m", "e", " ", "c", "a", "n", "n",
      "o", "t", " ", "b", "e", " ", "e", "m", "p", "t", "y">>
MsgNoNumeric ==
    <<"D", "a", "t", "a", "F", "r", "a", "m", "e", " ", "m", "u", "s", "t",
      " ", "c", "o", "n", "t", "a", "i", "n", " ", "a", "t", " ", "l", "e",
      "a", "s", "t", " ", "o", "n", "e", " ", "n", "u", "m", "e", "r", "i",
      "c", " ", "c", "o", "l", "u", "m", "n">>
\* pandas: f"cannot insert {column}, already exists"; the formatted column
\* name is kept as one element of the message.
MsgCannotInsert(column) ==
    <<"c", "a", "n", "n", "o", "t", " ", "i", "n", "s", "e", "r", "t", " ">>
    \o <<column>> \o
    <<",", " ", "a", "l", "r", "e", "a", "d", "y", " ", "e", "x", "i", "s",
      "t", "s">>
\* the pattern of pytest.raises(ValueError, match=...) in the test file
TestPattern ==
    <<"D", "a", "t", "a", " ", "c", "a", "n", "n", "o", "t", " ", "b", "e",
      " ", "e", "m", "p", "t", "y">>

\* re.search of a pattern without metacharacters: a substring search
re_search(pattern, text) ==
    \E i \in 0..(Len(text) - Len(pattern)) :
        SubSeq(text, i + 1, i + Len(pattern)) = pattern

(***************************** inputs **************************************)
ColumnNames == {"Research", "Training", "Year"}
IndexNames == {None, "Year", "Research", "Jaar"}

\* row labels: calendar years, in ascending or in descending order
YearLabels(n) ==
    {[i \in 1..n |-> 2019 + i], [i \in 1..n |-> 2020 + n - i]}

\* what one column holds: two numeric series (2.1, 2.5, ... and 0.8, 1.0, ...)
\* and one column of text
ColumnPool(n) ==
    {[dtype |-> "number", values |-> [i \in 1..n |-> 17 + 4 * i]],
     [dtype |-> "number", values |-> [i \in 1..n |-> 6 + 2 * i]],
     [dtype |-> "object", values |-> [i \in 1..n |-> 100 + i]]}

InjectiveSeqs(S, n) ==
    {s \in [1..n -> S] : \A i, j \in 1..n : i # j => s[i] # s[j]}

DataFrames ==
    UNION {UNION {
        {[kind |-> "DataFrame", index_name |-> nm, index |-> ix,
          columns |-> cs,
          dtypes |-> [j \in 1..c |-> content[j].dtype],
          data |-> [j \in 1..c |-> content[j].values]] :
            nm \in IndexNames, ix \in YearLabels(n),
            cs \in InjectiveSeqs(ColumnNames, c),
            content \in [1..c -> ColumnPool(n)]}
        : c \in 0..MaxCols} : n \in 0..MaxRows}

\* objects that are no DataFrame: the empty dict and the empty list
NonTables ==
    {[kind |-> k, index_name |-> None, index |-> <<>>, columns |-> <<>>,
      dtypes |-> <<>>, data |-> <<>>] : k \in {"dict", "list"}}

Omitted == [given |-> FALSE]
Given(v) == [given |-> TRUE, v |-> v]
TitleArgs == {Omitted, Given("Custom Title")}
WidthArgs == {Omitted, Given(ExampleWidth)}
HeightArgs == {Omitted, Given(ExampleHeight)}

\* a parameter with a default value in the signature
Param(arg, default) == IF arg.given THEN arg.v ELSE default

(************************ pandas operations ********************************)
NRows(d) == Len(d.index)
NCols(d) == Len(d.columns)

isinstance_DataFrame(d) == d.kind = "DataFrame"

\* DataFrame.empty: any axis of length 0
empty(d) == NRows(d) = 0 \/ NCols(d) = 0

\* df.select_dtypes(include=['number']).columns, as column positions
numeric_cols(d) == {j \in 1..NCols(d) : d.dtypes[j] = "number"}

NoChart == [mark |-> "none"]
NoError == [exc |-> "none", msg |-> <<>>]
Error(exc, msg) == [exc |-> exc, msg |-> msg]

\* the name reset_index gives the flattened index
index_label(d) == IF d.index_name = None THEN "index" ELSE d.index_name

\* DataFrame.reset_index raises when the index's name is a column already
reset_index_error(d) ==
    IF \E j \in 1..NCols(d) : d.columns[j] = index_label(d)
    THEN Error("ValueError", MsgCannotInsert(index_label(d)))
    ELSE NoError

\* DataFrame.reset_index: a new frame whose first column is the old index
reset_index(d) ==
    [kind |-> "DataFrame", index_name |-> None,
     index |-> [i \in 1..NRows(d) |-> i - 1],
     columns |-> <<index_label(d)>> \o d.columns,
     dtypes |-> <<"number">> \o d.dtypes,
     data |-> <<d.index>> \o d.data]

\* melt laying the values out row after row
melt_row_major(frame, var_name, value_name) ==
    LET n == NRows(frame)
        K == NCols(frame) - 1
    IN [columns |-> <<frame.columns[1], var_name, value_name>>,
        records |-> [k \in 1..(n * K) |->
            LET i == ((k - 1) \div K) + 1
                j == ((k - 1) % K) + 1
            IN <<frame.data[1][i], frame.columns[j + 1], frame.data[j + 1][i]>>]]

\* melt restricted to the numeric columns (value_vars=numeric_cols)
melt_numeric_only(frame, var_name, value_name) ==
    LET n == NRows(frame)
        num == {j \in 2..NCols(frame) : frame.dtypes[j] = "number"}
        nth(m) == CHOOSE j \in num : Cardinality({x \in num : x < j}) = m - 1
    IN [columns |-> <<frame.columns[1], var_name, value_name>>,
        records |-> [k \in 1..(n * Cardinality(num)) |->
            LET j == nth(((k - 1) \div n) + 1)
                i == ((k - 1) % n) + 1
            IN <<frame.data[1][i], frame.columns[j], frame.data[j][i]>>]]

\* DataFrame.melt(id_vars=[first column], var_name, value_name): the values
\* of the other columns are laid out column after column (ravel("F")), the
\* id column is repeated once per melted column.
melt(frame, var_name, value_name) ==
    LET n == NRows(frame)
        K == NCols(frame) - 1
    IN [columns |-> <<frame.columns[1], var_name, value_name>>,
        records |-> [k \in 1..(n * K) |->
            LET j == ((k - 1) \div n) + 1
                i == ((k - 1) % n) + 1
            IN <<frame.data[1][i], frame.columns[j + 1], frame.data[j + 1][i]>>]]

(************************ create_stacked_bar_chart *************************)
\* the checks with the numeric-column check ahead of the emptiness check
Validate_numeric_first(d) ==
    IF ~isinstance_DataFrame(d) THEN Error("TypeError", MsgNotDataFrame)
    ELSE IF Cardinality(numeric_cols(d)) = 0
         THEN Error("ValueError", MsgNoNumeric)
    ELSE IF empty(d) THEN Error("ValueError", MsgEmpty)
    ELSE NoError

\* lines 77-89: the three checks, in the order of the code
Validate(d) ==
    IF ~isinstance_DataFrame(d) THEN Error("TypeError", MsgNotDataFrame)
    ELSE IF empty(d) THEN Error("ValueError", MsgEmpty)
    ELSE IF Cardinality(numeric_cols(d)) = 0
         THEN Error("ValueError", MsgNoNumeric)
    ELSE NoError

\* lines 93-94 left out: the index keeps the name it came with
name_index_skipped(d) == d

\* lines 93-94: assignment to df.index.name, on the caller's object
name_index(d) ==
    IF d.index_name = None THEN [d EXCEPT !.index_name = "Year"] ELSE d

\* an enable that registers the name without activating it
themes_enable_noop(active, name) == active

\* alt.themes.enable(name): the new value of the process-wide active theme
themes_enable(active, name) == name

\* lines 109-127
Chart(df_melted, year_col, title, width, height) ==
    [data |-> df_melted,
     mark |-> "bar",
     x |-> [field |-> year_col, type |-> "O", title |-> "Year"],
     y |-> [field |-> "FTE", type |-> "Q",
            title |-> "Full-Time Equivalent (FTE)"],
     color |-> [field |-> "Activity", type |-> "N", title |-> "Activity"],
     width |-> width,
     height |-> height,
     title |-> title,
     resolve_scale |-> [color |-> "independent"]]

Raised(d, theme, e) ==
    [df |-> d, activeTheme |-> theme,
     result |-> [status |-> "raised", exc |-> e.exc, msg |-> e.msg,
                 chart |-> NoChart]]

Returned(d, theme, chart) ==
    [df |-> d, activeTheme |-> theme,
     result |-> [status |-> "ok", exc |-> "none", msg |-> <<>>,
                 chart |-> chart]]

\* lines 93-129: the function after its checks
Body(d, theme, title, width, height) ==
    LET named == name_index(d)
    IN IF reset_index_error(named) # NoError
       THEN Raised(named, theme, reset_index_error(named))
       ELSE LET df_reset == reset_index(named)
                year_col == df_reset.columns[1]
                df_melted == melt(df_reset, "Activity", "FTE")
            IN Returned(named, themes_enable(theme, NlescTheme),
                        Chart(df_melted, year_col, title, width, height))

\* the function with the theme enabled on entry, ahead of the checks
create_stacked_bar_chart_theme_first(d, theme, title, width, height) ==
    IF Validate(d) # NoError
    THEN Raised(d, themes_enable(theme, NlescTheme), Validate(d))
    ELSE Body(d, theme, Param(title, DefaultTitle),
              Param(width, DefaultWidth), Param(height, DefaultHeight))

\* the whole function: what it leaves of the caller's object and of the
\* active theme, and what it returns or raises
create_stacked_bar_chart(d, theme, title, width, height) ==
    IF Validate(d) # NoError
    THEN Raised(d, theme, Validate(d))
    ELSE Body(d, theme, Param(title, DefaultTitle),
              Param(width, DefaultWidth), Param(height, DefaultHeight))

(****************************** actions ************************************)
NoCall == [made |-> FALSE]
NoResult == [status |-> "none", exc |-> "none", msg |-> <<>>, chart |-> NoChart]

\* after import: the theme is registered (line 35) but not yet enabled
Init ==
    /\ df \in DataFrames \cup NonTables
    /\ activeTheme = "default"
    /\ call = NoCall
    /\ result = NoResult

\* a caller calls create_stacked_bar_chart(df, title, width, height)
Call(title, width, height) ==
    LET o == create_stacked_bar_chart(df, activeTheme, title, width, height)
    IN /\ df' = o.df
       /\ activeTheme' = o.activeTheme
       /\ result' = o.result
       /\ call' = [made |-> TRUE, df |-> df, title |-> title,
                   width |-> width, height |-> height]

\* another actor of the process enables a theme
EnableTheme(name) ==
    /\ activeTheme' = themes_enable(activeTheme, name)
    /\ UNCHANGED <<df, call, result>>

CallStep ==
    \E title \in TitleArgs, width \in WidthArgs, height \in HeightArgs :
        Call(title, width, height)

EnableStep == \E name \in Themes : EnableTheme(name)

Next == CallStep \/ EnableStep

Spec == Init /\ [][Next]_vars

(************************* claims: vocabulary ******************************)
\* the three failures of the error taxonomy, told apart by type and message
IsTypeMismatch(r) == r.status = "raised" /\ r.exc = "TypeError"
IsEmptyInput(r) ==
    r.status = "raised" /\ r.exc = "ValueError" /\ r.msg = MsgEmpty
IsSchemaError(r) ==
    r.status = "raised" /\ r.exc = "ValueError" /\ r.msg = MsgNoNumeric
IsValidationFailure(r) ==
    IsTypeMismatch(r) \/ IsEmptyInput(r) \/ IsSchemaError(r)

IsTable(d) == d.kind = "DataFrame"
HasNoCells(d) == Len(d.index) = 0 \/ Len(d.columns) = 0
AllNonNumeric(d) == \A j \in 1..Len(d.columns) : d.dtypes[j] # "number"
\* a valid table: a row, a column and a numeric column
IsValidTable(d) == IsTable(d) /\ ~HasNoCells(d) /\ ~AllNonNumeric(d)

\* the long-format records of the chart the last call returned
Records == result.chart.data.records
\* the row and the column of the input table a record comes from
RowOf(rec) == CHOOSE i \in 1..Len(call.df.index) : call.df.index[i] = rec[1]
ColOf(rec) ==
    CHOOSE j \in 1..Len(call.df.columns) : call.df.columns[j] = rec[2]

C2_ValidTableReturns ==
    (call.made /\ IsValidTable(call.df)) => result.status = "ok"

(******************************** C3 ***************************************)
\* the table of the scenario: Research 2.1, 2.5 and Training 0.8, 1.0 for
\* the years 2020, 2021, with an unnamed or a named row-label axis
IsScenarioTable(d) ==
    /\ IsTable(d)
    /\ d.index = <<2020, 2021>>
    /\ d.columns = <<"Research", "Training">>
    /\ d.data = <<(<<21, 25>>), (<<8, 10>>)>>

C4_OneRecordPerCell ==
    (call.made /\ result.status = "ok") =>
        /\ Len(Records) = Len(call.df.index) * Len(call.df.columns)
        /\ \A i \in 1..Len(call.df.index), j \in 1..Len(call.df.columns) :
              Cardinality({k \in 1..Len(Records) :
                  Records[k] = <<call.df.index[i], call.df.columns[j],
                                 call.df.data[j][i]>>}) = 1

\* a table of two rows with a numeric and a non-numeric column has been
\* reshaped
C4_Witness ==
    /\ call.made
    /\ result.status = "ok"
    /\ Len(call.df.index) = 2
    /\ \E j \in 1..Len(call.df.columns) : call.df.dtypes[j] = "object"
    /\ Len(Records) = 4

(******************************** C5 ***************************************)
\* C5: a call does not mutate the input table: after the call, successful
\* or not, the caller's table has the row-label axis name, row labels,
\* column names and cell values it had before the call.
C5_InputNotMutated == call.made => df = call.df

(******************************** C6 ***************************************)
\* C6: a call that fails with TypeMismatch, EmptyInput or SchemaError
\* leaves the input table (its row-label axis name included) and the
\* process-wide active theme as they were, and produces no chart spec.
C6_FailFast ==
    [][(IsValidationFailure(result') /\ CallStep) =>
          /\ df' = df
          /\ activeTheme' = activeTheme
          /\ result'.chart = NoChart]_vars

\* a call on a table with an unnamed row-label axis and no numeric column
\* has failed
C6_Witness ==
    /\ call.made
    /\ IsTable(call.df)
    /\ call.df.index_name = None
    /\ IsSchemaError(result)

(******************************** C7 ***************************************)
\* C7: a successful call leaves "my_nlesc_theme" the active theme (no step
\* that ends with another theme active is a successful call); the active
\* theme changes only when the call or another actor enables one, and it
\* is then the theme of that last writer.
C7_ThemeLastWriter ==
    [][/\ (result'.status = "ok" /\ activeTheme' # NlescTheme) => ~CallStep
       /\ \A name \in Themes : EnableTheme(name) => activeTheme' = name
       /\ activeTheme' # activeTheme =>
             \/ \E name \in Themes : EnableTheme(name)
             \/ result'.status = "ok" /\ CallStep]_vars

\* a call has succeeded and its theme is the active one
C7_Witness ==
    /\ call.made
    /\ result.status = "ok"
    /\ activeTheme = NlescTheme

(******************************** C8 ***************************************)
\* C8: for a table whose row-label axis is unnamed, the row-label column
\* of the long records, the field of the horizontal axis (ordinal) and the
\* horizontal axis label are all "Year"; a row-label axis that has a name
\* keeps it as the row-label column and horizontal-axis field.
C8_RowLabelName ==
    (call.made /\ result.status = "ok") =>
        LET name == IF call.df.index_name = None
                    THEN "Year" ELSE call.df.index_name
        IN /\ result.chart.data.columns[1] = name
           /\ result.chart.x.field = name
           /\ result.chart.x.type = "O"
           /\ result.chart.x.title = "Year"

\* a call on a table with an unnamed row-label axis has returned a chart
C8_Witness ==
    /\ call.made
    /\ call.df.index_name = None
    /\ result.status = "ok"
    /\ result.chart.x.field = "Year"

(******************************** C9 ***************************************)
\* C9: the returned chart spec carries the documented defaults for omitted
\* arguments (title "FTE Allocation by Activity per Year", width 600,
\* height 400) and exactly the given value for an explicit argument.
C9_DocumentedDefaults ==
    (call.made /\ result.status = "ok") =>
        /\ result.chart.title = Param(call.title, DocumentedTitle)
        /\ result.chart.width = Param(call.width, DocumentedWidth)
        /\ result.chart.height = Param(call.height, DocumentedHeight)

(******************************** C10 **************************************)
\* C10: a call with empty data (the test's empty dict, or a table without
\* rows or columns) fails with a ValueError whose message matches
\* "Data cannot be empty".
C10_EmptyDataMessage ==
    (call.made /\ (~IsTable(call.df) \/ HasNoCells(call.df))) =>
        /\ result.status = "raised"
        /\ result.exc = "ValueError"
        /\ re_search(TestPattern, result.msg)

====
